---- MODULE Spec2Model ----
(***************************************************************************)
(* irctoslack: the bidirectional IRC <-> Slack relay (main.go).            *)
(*                                                                         *)
(* Goroutines of the process:                                              *)
(*   - main: waits for the first IRC connection, then starts the webhook   *)
(*     listener;                                                           *)
(*   - manageIRCConnection: dial, register, read loop, redial;             *)
(*   - one goroutine per webhook request (net/http).                       *)
(* Strings are sequences of one-character strings, indexed from 0 as in Go *)
(* by the helper operators below.                                          *)
(***************************************************************************)
EXTENDS Integers, Sequences, FiniteSets, TLC

(***************************************************************************)
(* Bounds of the model.                                                    *)
(***************************************************************************)
\* number of webhook requests net/http serves concurrently
NumHandlers == 2
\* number of TCP connections the server accepts over the run
MaxConns == 2
\* last instant of the clock (time.Now), in units of half an hour
MaxTime == 3

(***************************************************************************)
(* Go's strings package, on sequences of characters.                       *)
(***************************************************************************)
Min(S) == CHOOSE x \in S : \A y \in S : x <= y

\* strings.Index: byte offset (from 0) of the first occurrence, or -1
Index(s, sub) ==
    LET cand == {i \in 0..(Len(s) - Len(sub)) : SubSeq(s, i + 1, i + Len(sub)) = sub}
    IN  IF cand = {} THEN -1 ELSE Min(cand)

Contains(s, sub) == Index(s, sub) # -1

HasPrefix(s, p) == Len(s) >= Len(p) /\ SubSeq(s, 1, Len(p)) = p

\* strings.Replace(s, old, new, 1)
Replace1(s, old, new) ==
    LET i == Index(s, old)
    IN  IF i = -1 THEN s
        ELSE SubSeq(s, 1, i) \o new \o SubSeq(s, i + Len(old) + 1, Len(s))

RECURSIVE TrimRight(_, _)
\* strings.TrimRight(s, cutset)
TrimRight(s, cutset) ==
    IF s # <<>> /\ s[Len(s)] \in cutset
    THEN TrimRight(SubSeq(s, 1, Len(s) - 1), cutset)
    ELSE s

\* the slice expression s[lo:hi]; a run-time panic when the bounds are out of range
GoSlice(s, lo, hi) ==
    IF 0 <= lo /\ lo <= hi /\ hi <= Len(s)
    THEN [panic |-> FALSE, val |-> SubSeq(s, lo + 1, hi)]
    ELSE [panic |-> TRUE, val |-> <<>>]

Val(s) == [panic |-> FALSE, val |-> s]

(***************************************************************************)
(* Literals of the IRC wire protocol.                                      *)
(***************************************************************************)
StrPING == <<"P", "I", "N", "G">>
StrPONG == <<"P", "O", "N", "G">>
StrJOIN == <<"J", "O", "I", "N">>
StrPART == <<"P", "A", "R", "T">>
StrPRIVMSG == <<"P", "R", "I", "V", "M", "S", "G">>
StrACTION == <<"A", "C", "T", "I", "O", "N">>
\* the CTCP delimiter, byte 0x01
SOH == "SOH"
CR == "\r"
LF == "\n"
SP == " "

(***************************************************************************)
(* fmt.Fprintf(w, format) with no operands, as the program calls it with a  *)
(* line for format: a "%" is taken for the start of a verb.  Defined for   *)
(* formats whose "%" is followed by nothing, by "%", or by a character that *)
(* is no flag, digit, ".", "*" or "[" (that character is then the verb).    *)
(***************************************************************************)
NoVerb == <<"%", "!", "(", "N", "O", "V", "E", "R", "B", ")">>
Missing == <<"(", "M", "I", "S", "S", "I", "N", "G", ")">>

RECURSIVE Fprintf(_)
\* the bytes fmt.Fprintf(w, format) writes to w
Fprintf(format) ==
    IF format = <<>> THEN <<>>
    ELSE IF Head(format) # "%" THEN <<Head(format)>> \o Fprintf(Tail(format))
    ELSE IF Len(format) = 1 THEN NoVerb
    ELSE IF format[2] = "%" THEN <<"%">> \o Fprintf(SubSeq(format, 3, Len(format)))
    ELSE <<"%", "!", format[2]>> \o Missing \o Fprintf(SubSeq(format, 3, Len(format)))

\* the number of line delimiters in s: the protocol lines a server reads from it
RECURSIVE CountLines(_)
CountLines(s) ==
    IF s = <<>> THEN 0
    ELSE (IF Head(s) = LF THEN 1 ELSE 0) + CountLines(Tail(s))

(***************************************************************************)
(* The line codec (extractNickname, extractIRCMessage, extractActionMessage)*)
(* and the classification handleMessage makes of one line.                 *)
(***************************************************************************)
\* message[1:prefixEnd], or "" when the line has no "!"
extractNickname(message) ==
    LET prefixEnd == Index(message, <<"!">>)
    IN  IF prefixEnd = -1 THEN Val(<<>>) ELSE GoSlice(message, 1, prefixEnd)

\* the text after the first " :" that follows " PRIVMSG "
extractIRCMessage(message) ==
    LET tok == <<SP>> \o StrPRIVMSG \o <<SP>>
        idx == Index(message, tok)
        rest == SubSeq(message, idx + Len(tok) + 1, Len(message))
        colonIdx == Index(rest, <<SP, ":">>)
    IN  IF idx = -1 THEN <<>>
        ELSE IF colonIdx = -1 THEN <<>>
        ELSE TrimRight(SubSeq(rest, colonIdx + 3, Len(rest)), {CR, LF})

\* the text between "ACTION " and the next SOH byte
extractActionMessage(message) ==
    LET start == Index(message, StrACTION) + Len(StrACTION) + 1
        tail == GoSlice(message, start, Len(message))
        end == Index(tail.val, <<SOH>>)
    IN  IF tail.panic THEN tail
        ELSE IF end = -1 THEN Val(TrimRight(tail.val, {CR, LF}))
        ELSE GoSlice(message, start, start + end)

HasJoined == <<" ", "h", "a", "s", " ", "j", "o", "i", "n", "e", "d", " ", "t", "h", "e", " ", "c", "h", "a", "n", "n", "e", "l", "*">>
HasLeft == <<" ", "h", "a", "s", " ", "l", "e", "f", "t", " ", "t", "h", "e", " ", "c", "h", "a", "n", "n", "e", "l", "*">>

\* What handleMessage does with one line, up to its first blocking call:
\*   pong  - a reply to write to the connection (out),
\*   post  - a text to post to the Slack webhook (out),
\*   none  - the line is ignored,
\*   panic - a run-time panic in the read loop's goroutine.
handleMessage(message) ==
    LET nickname == extractNickname(message)
        action == extractActionMessage(message)
        Post(t) == [kind |-> "post", out |-> t]
        Panic == [kind |-> "panic", out |-> <<>>]
    IN  IF HasPrefix(message, StrPING)
        THEN [kind |-> "pong", out |-> Replace1(message, StrPING, StrPONG)]
        ELSE IF Contains(message, StrJOIN)
        THEN IF nickname.panic THEN Panic
             ELSE Post(<<"*">> \o nickname.val \o HasJoined)
        ELSE IF Contains(message, StrPART)
        THEN IF nickname.panic THEN Panic
             ELSE Post(<<"*">> \o nickname.val \o HasLeft)
        ELSE IF Contains(message, StrPRIVMSG) /\ Contains(message, StrACTION)
        THEN IF nickname.panic \/ action.panic THEN Panic
             ELSE Post(<<"_">> \o nickname.val \o <<SP>> \o action.val \o <<"_">>)
        ELSE IF Contains(message, StrPRIVMSG)
        THEN IF nickname.panic THEN Panic
             ELSE Post(<<"<">> \o nickname.val \o <<">", SP>> \o extractIRCMessage(message))
        ELSE [kind |-> "none", out |-> <<>>]

(***************************************************************************)
(* State.                                                                  *)
(***************************************************************************)
VARIABLES
    proc,             \* "running", or how the process ended
    mainPc,           \* main: "recv" (<-connectionReady), "listen", "serve"
    handlerConn,      \* the *IRCConnection createWebhookHandler closed over (0: none yet)
    readySends,       \* number of completed sends on connectionReady
    mgrPc,            \* manageIRCConnection's position
    firstConnection,  \* its local firstConnection
    ircConn,          \* its local ircConn: the newest *IRCConnection (0: nil)
    mgrLine,          \* handleMessage's message: the line being handled
    mgrOut,           \* the PONG reply being written / the text being posted
    mgrWrote,         \* the bytes handleMessage's Fprintf has written to the connection
    mgrLast,          \* the manager's latest step: "start" (none yet), "dial",
                      \* "dialok", "dialfail", "readerr", "postfail" or "other"
    mutex,            \* per IRCConnection: the goroutines holding its mutex
    writing,          \* per IRCConnection: the goroutines inside an Fprintf on its conn
    reg,              \* per IRCConnection: the registration commands written to its conn
    hs,               \* per webhook request goroutine: its position and locals
    userCache,        \* the global userCache map
    userCacheMux,     \* the global RWMutex: its readers and writers
    now,              \* time.Now()
    config            \* the loaded Config: IgnoreBots, IgnoreUsers

vars == <<config, proc, mainPc, handlerConn, readySends, mgrPc, firstConnection, ircConn,
          mgrLine, mgrOut, mgrWrote, mgrLast, mutex, writing, reg, hs, userCache,
          userCacheMux, now>>

mainVars == <<mainPc, handlerConn, readySends>>
mgrVars == <<mgrPc, firstConnection, ircConn, mgrLine, mgrOut, mgrWrote, mgrLast>>
connVars == <<mutex, writing, reg>>
cacheVars == <<userCache, userCacheMux>>

\* the goroutines serving webhook requests
Handlers == 1..NumHandlers
\* the goroutine running manageIRCConnection, as a writer to connections
ReadLoop == 0

Running == proc = "running"

(***************************************************************************)
(* Inputs: the lines the IRC server sends.                                 *)
(***************************************************************************)
Prefix == <<":", "n", "!", "u", "@", "h", SP>>
Chan == <<"#", "c">>

\* one line of each kind handleMessage tells apart, as an IRC server sends them
ServerLines ==
    { StrPING \o <<SP, ":", "s", CR, LF>>,
      Prefix \o StrJOIN \o <<SP>> \o Chan \o <<CR, LF>>,
      Prefix \o StrPART \o <<SP>> \o Chan \o <<CR, LF>>,
      Prefix \o StrPRIVMSG \o <<SP>> \o Chan \o <<SP, ":", "h", "i", CR, LF>>,
      Prefix \o StrPRIVMSG \o <<SP>> \o Chan \o <<SP, ":", SOH>> \o StrACTION
             \o <<SP, "x", SOH, CR, LF>>,
      <<":", "s", SP, "0", "0", "1", SP, "n", CR, LF>> }

\* a line whose first byte is "!"
BangLine == <<"!">> \o StrJOIN \o <<LF>>

\* the chat line :nick!u@h PRIVMSG #c :text
ChatLine(nick, text) ==
    <<":">> \o nick \o <<"!", "u", "@", "h", SP>> \o StrPRIVMSG \o <<SP>> \o Chan
        \o <<SP, ":">> \o text \o <<CR, LF>>

\* the line PING :param
PingLine(param) == StrPING \o <<SP, ":">> \o param \o <<CR, LF>>

Hi == <<"h", "i">>

\* texts of chat lines: plain, and one that names an IRC command
ChatTexts == { Hi, StrJOIN \o <<"?">> }

\* parameters of PING lines: plain, and one with a "%"
PingParams == { <<"s">>, <<"%", "s">> }

\* the lines the server sends in the model
Lines == ServerLines \cup {BangLine}

\* a chat line whose prefix is a server name: it has no "!"
NoBangLine ==
    <<":", "s", SP>> \o StrPRIVMSG \o <<SP>> \o Chan \o <<SP, ":">> \o Hi \o <<CR, LF>>

\* chat lines and PING lines of every text and parameter above, and a chat line
\* without nickname
CodecLines ==
    {ChatLine(<<"n">>, text) : text \in ChatTexts}
        \cup {PingLine(param) : param \in PingParams}
        \cup {NoBangLine}

(***************************************************************************)
(* main (lines 175-189).                                                   *)
(***************************************************************************)
\* the connection offered as soon as it is dialled, before it is registered
ReadyOfferedEarly == mgrPc \in {"nick", "ready"}

\* `ready <- ircConn` is reached: the manager offers the connection on the channel
ReadyOffered == mgrPc = "ready"

\* ircConn := <-connectionReady, the rendezvous with the manager's send;
\* the manager then clears firstConnection and enters its read loop
RecvReady ==
    /\ Running
    /\ mainPc = "recv"
    /\ ReadyOffered
    /\ mainPc' = "listen"
    /\ handlerConn' = ircConn
    /\ readySends' = readySends + 1
    /\ firstConnection' = FALSE
    /\ mgrPc' = "read"
    /\ mgrLast' = "other"
    /\ UNCHANGED <<config, proc, ircConn, mgrLine, mgrOut, mgrWrote, connVars, hs, cacheVars, now>>

\* http.HandleFunc("/webhook", createWebhookHandler(ircConn)); ListenAndServe serves
ListenOK ==
    /\ Running
    /\ mainPc = "listen"
    /\ mainPc' = "serve"
    /\ UNCHANGED <<config, proc, handlerConn, readySends, mgrVars, connVars, hs, cacheVars, now>>

\* ListenAndServe returns an error: log.Fatalf ends the process
ListenFail ==
    /\ Running
    /\ mainPc = "listen"
    /\ proc' = "listenFatal"
    /\ UNCHANGED <<config, mainVars, mgrVars, connVars, hs, cacheVars, now>>

(***************************************************************************)
(* manageIRCConnection (lines 343-386) and handleMessage (388-433).        *)
(***************************************************************************)
\* net.Dial("tcp", config.IRC.Server) is called
Dial ==
    /\ Running
    /\ mgrPc = "dial"
    /\ mgrPc' = "dialing"
    /\ mgrLast' = "dial"
    /\ UNCHANGED <<config, proc, mainVars, firstConnection, ircConn, mgrLine, mgrOut, mgrWrote, connVars, hs,
                   cacheVars, now>>

\* the read loop starts on a connection as it is dialled
SkipRegistration == "read"

\* lines 357-363: after a successful Dial the first statement is the NICK command
AfterDial == "nick"

\* net.Dial succeeds: a new IRCConnection replaces the manager's ircConn
DialOK ==
    /\ Running
    /\ mgrPc = "dialing"
    /\ ircConn < MaxConns
    /\ ircConn' = ircConn + 1
    /\ mgrPc' = AfterDial
    /\ mgrLast' = "dialok"
    /\ UNCHANGED <<config, proc, mainVars, firstConnection, mgrLine, mgrOut, mgrWrote, connVars, hs, cacheVars, now>>

\* every failed Dial is fatal
FatalAlways == TRUE

\* lines 351-353: a failed Dial is fatal while firstConnection is set
FatalOnFail == firstConnection

\* net.Dial fails: fatal on the first connection, otherwise `continue`
DialFail ==
    /\ Running
    /\ mgrPc = "dialing"
    /\ IF FatalOnFail THEN proc' = "fatal" ELSE UNCHANGED proc
    /\ mgrPc' = "dial"
    /\ mgrLast' = "dialfail"
    /\ UNCHANGED <<config, mainVars, firstConnection, ircConn, mgrLine, mgrOut, mgrWrote, connVars, hs,
                   cacheVars, now>>

\* the connection is offered on the channel after every registration
AlwaysReady == "ready"

\* the position after the JOIN command is written
AfterRegister == IF firstConnection THEN "ready" ELSE "read"

\* fmt.Fprintf(conn, "NICK ..."), "USER ...", "JOIN ...": written without the mutex;
\* each write is entered and left in separate steps
Register ==
    /\ Running
    /\ mgrPc \in {"nick", "user", "join"}
    /\ IF ReadLoop \notin writing[ircConn]
       THEN /\ writing' = [writing EXCEPT ![ircConn] = @ \cup {ReadLoop}]
            /\ UNCHANGED <<mgrPc, reg>>
       ELSE /\ writing' = [writing EXCEPT ![ircConn] = @ \ {ReadLoop}]
            /\ reg' = [reg EXCEPT ![ircConn] = Append(@, mgrPc)]
            /\ mgrPc' = CASE mgrPc = "nick" -> "user"
                          [] mgrPc = "user" -> "join"
                          [] OTHER -> AfterRegister
    /\ mgrLast' = "other"
    /\ UNCHANGED <<config, proc, mainVars, firstConnection, ircConn, mgrLine, mgrOut, mgrWrote, mutex, hs,
                   cacheVars, now>>

\* the read loop takes the next line while a post is still in progress
CanReadWhilePosting == mgrPc \in {"read", "post"}

\* line 375: the read loop is at reader.ReadString, handleMessage has returned
CanRead == mgrPc = "read"

\* reader.ReadString('\n') returns a line; handleMessage runs to its first blocking
\* call (the Lock before the PONG, or http.Post) or to its return
ReadLine(message) ==
    /\ Running
    /\ CanRead
    /\ LET r == handleMessage(message)
       IN  /\ proc' = IF r.kind = "panic" THEN "panic" ELSE proc
           /\ mgrPc' = CASE r.kind = "pong" -> "pongLock"
                         [] r.kind = "post" -> "post"
                         [] OTHER -> "read"
           /\ mgrLine' = IF r.kind \in {"pong", "post"} THEN message ELSE <<>>
           /\ mgrOut' = r.out
    /\ mgrLast' = "other"
    /\ UNCHANGED <<config, mainVars, firstConnection, ircConn, mgrWrote, connVars, hs,
                   cacheVars, now>>

\* the manager returns when the stream ends
ReturnOnReadErr == "return"

\* lines 376-385: after `break` the outer loop goes back to net.Dial
AfterReadErr == "dial"

\* reader.ReadString fails (read error or closed stream): break, log, loop to Dial
ReadErr ==
    /\ Running
    /\ mgrPc = "read"
    /\ mgrPc' = AfterReadErr
    /\ mgrLast' = "readerr"
    /\ UNCHANGED <<config, proc, mainVars, firstConnection, ircConn, mgrLine, mgrOut, mgrWrote, connVars, hs,
                   cacheVars, now>>

\* a Lock that takes nothing
AcquireNothing(c, w) == mutex

\* sync.Mutex.Lock on the mutex of IRCConnection c, by goroutine w
Acquire(c, w) == [mutex EXCEPT ![c] = @ \cup {w}]

\* an Unlock that releases nothing
ReleaseNothing(c, w) == mutex

\* sync.Mutex.Unlock on the mutex of IRCConnection c, by goroutine w
Release(c, w) == [mutex EXCEPT ![c] = @ \ {w}]

\* a mutex that never makes a caller wait
MutexAlwaysFree(c) == TRUE

\* the mutex of IRCConnection c is unlocked
MutexFree(c) == mutex[c] = {}

\* ircConn.mutex.Lock() before the PONG reply
PongLock ==
    /\ Running
    /\ mgrPc = "pongLock"
    /\ MutexFree(ircConn)
    /\ mutex' = Acquire(ircConn, ReadLoop)
    /\ mgrPc' = "pongWrite"
    /\ mgrLast' = "other"
    /\ UNCHANGED <<config, proc, mainVars, firstConnection, ircConn, mgrLine, mgrOut, mgrWrote, writing, reg, hs,
                   cacheVars, now>>

\* fmt.Fprintf(ircConn.conn, response): entered and left in separate steps; the
\* reply is the format
PongWrite ==
    /\ Running
    /\ mgrPc = "pongWrite"
    /\ IF ReadLoop \notin writing[ircConn]
       THEN /\ writing' = [writing EXCEPT ![ircConn] = @ \cup {ReadLoop}]
            /\ UNCHANGED <<mgrPc, mgrWrote>>
       ELSE /\ writing' = [writing EXCEPT ![ircConn] = @ \ {ReadLoop}]
            /\ mgrWrote' = Fprintf(mgrOut)
            /\ mgrPc' = "pongUnlock"
    /\ mgrLast' = "other"
    /\ UNCHANGED <<config, proc, mainVars, firstConnection, ircConn, mgrLine, mgrOut, mutex, reg,
                   hs, cacheVars, now>>

\* ircConn.mutex.Unlock(); return to the read loop
PongUnlock ==
    /\ Running
    /\ mgrPc = "pongUnlock"
    /\ mutex' = Release(ircConn, ReadLoop)
    /\ mgrPc' = "read"
    /\ mgrLine' = <<>>
    /\ mgrOut' = <<>>
    /\ mgrWrote' = <<>>
    /\ mgrLast' = "other"
    /\ UNCHANGED <<config, proc, mainVars, firstConnection, ircConn, writing, reg, hs, cacheVars, now>>

\* the outcomes of http.Post: a 200, a transport error, a status other than 200
PostOutcomes == {"ok", "transport", "status"}

\* a failed post is made again
RetryOnFailure(outcome) == IF outcome = "ok" THEN "read" ELSE "post"

\* lines 480-489: every outcome is logged at most; postToSlack and handleMessage
\* return to the read loop
AfterPost(outcome) == "read"

\* http.Post returns with an outcome and postToSlack returns
PostDone(outcome) ==
    /\ Running
    /\ mgrPc = "post"
    /\ mgrPc' = AfterPost(outcome)
    /\ mgrLine' = IF AfterPost(outcome) = "read" THEN <<>> ELSE mgrLine
    /\ mgrOut' = IF AfterPost(outcome) = "read" THEN <<>> ELSE mgrOut
    /\ mgrLast' = IF outcome = "ok" THEN "other" ELSE "postfail"
    /\ UNCHANGED <<config, proc, mainVars, firstConnection, ircConn, mgrWrote, connVars, hs,
                   cacheVars, now>>

(***************************************************************************)
(* The identity cache (lines 70-151).                                      *)
(***************************************************************************)
\* 1 * time.Hour, in units of half an hour
cacheDuration == 2

U1 == <<"U", "1">>
U2 == <<"U", "2">>

\* an entry is still served at the instant of its expiration
CacheValidAtExpiry(userID) ==
    userID \in DOMAIN userCache /\ now <= userCache[userID].expiration

\* the condition of line 100: an entry exists and the clock is before its expiration
CacheValid(userID) ==
    userID \in DOMAIN userCache /\ now < userCache[userID].expiration

\* an entry stored without the cache duration: it expires as it is stored
CachePutExpired(userID, displayName) ==
    [u \in DOMAIN userCache \cup {userID} |->
        IF u = userID
        THEN [displayName |-> displayName, expiration |-> now]
        ELSE userCache[u]]

\* userCache[userID] = UserCache{displayName, time.Now().Add(cacheDuration)}
CachePut(userID, displayName) ==
    [u \in DOMAIN userCache \cup {userID} |->
        IF u = userID
        THEN [displayName |-> displayName, expiration |-> now + cacheDuration]
        ELSE userCache[u]]

\* the display name alone, whatever it is
ChooseDisplayName(userID, profile) == profile.display_name

\* lines 133-140: display name, else real name, else the user ID
ChooseName(userID, profile) ==
    IF profile.display_name # <<>> THEN profile.display_name
    ELSE IF profile.real_name # <<>> THEN profile.real_name
    ELSE userID

\* var userInfo SlackUserInfo (line 122), before anything is decoded into it
NoUserInfo == [ok |-> FALSE, why |-> "", display_name |-> <<>>, real_name |-> <<>>]

\* the ways the lookup of lines 106-131 fails
LookupFailures ==
    { [ok |-> FALSE, why |-> w, display_name |-> <<>>, real_name |-> <<>>] :
        w \in {"transport", "decode", "rejected"} }

LookupOK(d, r) == [ok |-> TRUE, why |-> "", display_name |-> d, real_name |-> r]

\* mentionRegex, <@(U[A-Z0-9]+)>
IdChars ==
    { "A", "B", "C", "D", "E", "F", "G", "H", "I", "J", "K", "L", "M", "N", "O", "P",
      "Q", "R", "S", "T", "U", "V", "W", "X", "Y", "Z",
      "0", "1", "2", "3", "4", "5", "6", "7", "8", "9" }

\* the length of the longest run of identifier characters of s from offset i (from 0)
RECURSIVE RunLen(_, _)
RunLen(s, i) ==
    IF i < Len(s) /\ s[i + 1] \in IdChars THEN 1 + RunLen(s, i + 1) ELSE 0

\* the length of the match of mentionRegex at offset i of s, 0 when there is none
MatchLen(s, i) ==
    LET k == RunLen(s, i + 3)
    IN  IF /\ i + 3 < Len(s)
           /\ SubSeq(s, i + 1, i + 3) = <<"<", "@", "U">>
           /\ k >= 1
           /\ i + 3 + k < Len(s)
           /\ s[i + 3 + k + 1] = ">"
        THEN 3 + k + 1
        ELSE 0

\* no text has a mention
MentionNever(s) == [found |-> FALSE, before |-> s, id |-> <<>>, after |-> <<>>]

\* the leftmost mention of s: the text before it, its user ID, the text after it
FirstMention(s) ==
    LET at == {i \in 0..(Len(s) - 1) : MatchLen(s, i) > 0}
    IN  IF at = {} THEN [found |-> FALSE, before |-> s, id |-> <<>>, after |-> <<>>]
        ELSE LET i == Min(at)
                 n == MatchLen(s, i)
             IN  [found |-> TRUE,
                  before |-> SubSeq(s, 1, i),
                  id |-> SubSeq(s, i + 3, i + n - 1),
                  after |-> SubSeq(s, i + n + 1, Len(s))]

(***************************************************************************)
(* The webhook handler (lines 263-341).                                    *)
(***************************************************************************)
\* every event without a subtype is relayed
shouldProcessAny(event, cfg) == event.subtype = ""

\* shouldProcessMessage
shouldProcessMessage(event, cfg) ==
    IF event.subtype # "" THEN FALSE
    ELSE IF cfg.IgnoreBots /\ event.bot_id # "" THEN FALSE
    ELSE event.user \notin cfg.IgnoreUsers

\* the fields of SlackEvent.Event the handler reads
Event(t, u, x, b, st) == [type |-> t, user |-> u, text |-> x, bot_id |-> b, subtype |-> st]

\* an HTTP request to /webhook: its method, whether its body decodes into a
\* SlackEvent, and the decoded fields
Request(m, d, t, e) ==
    [method |-> m, decodes |-> d, type |-> t, challenge |-> "abc123", event |-> e]

\* no request: the goroutine does not exist
NoRequest == Request("", FALSE, "", Event("", <<>>, <<>>, "", ""))

\* A request's goroutine: its position (pc) and locals, and what it has done so far:
\*   req     - the request it serves,
\*   fresh   - whether the entry of uid was valid when it took the cache's read lock,
\*   lookups - the users.info calls made by the getUserDisplayName call in progress,
\*   writes  - the Fprintf calls it has made on the connection,
\*   wrote   - the bytes of its Fprintf, until it answers,
\*   names   - the names getUserDisplayName has returned to translateMentions.
\* userInfo is the decoded users.info response of the call in progress.
Idle ==
    [pc |-> "idle", phase |-> "", uid |-> <<>>, rest |-> <<>>, acc |-> <<>>,
     displayName |-> <<>>, fetched |-> <<>>, err |-> FALSE, status |-> 0, body |-> "",
     req |-> NoRequest, fresh |-> FALSE, lookups |-> 0, writes |-> 0, wrote |-> <<>>,
     userInfo |-> NoUserInfo, names |-> <<>>]

\* the response is written: status code and body
Respond(h, status, body) ==
    [Idle EXCEPT !.pc = "done", !.status = status, !.body = body,
                 !.req = h.req, !.err = h.err, !.writes = h.writes]

\* The handler with the name of one user resolved: the sender's name is kept, a
\* mention's name is appended to the translated text; translateMentions then goes
\* on to the next mention of the text, or the line is formatted and the lock taken.
Resolved(h, name) ==
    LET m == FirstMention(h.rest)
        acc == IF h.phase = "sender" THEN <<>> ELSE h.acc \o name
        displayName == IF h.phase = "sender" THEN name ELSE h.displayName
        names == IF h.phase = "sender" THEN <<>> ELSE Append(h.names, name)
    IN  IF m.found
        THEN [h EXCEPT !.pc = "resolve", !.phase = "mention", !.uid = m.id,
                       !.rest = m.after, !.acc = acc \o m.before \o <<"@">>,
                       !.displayName = displayName, !.fetched = <<>>,
                       !.fresh = FALSE, !.lookups = 0,
                       !.userInfo = NoUserInfo, !.names = names]
        ELSE [h EXCEPT !.pc = "lock", !.phase = "", !.uid = <<>>,
                       !.rest = <<>>, !.acc = acc \o h.rest,
                       !.displayName = displayName, !.fetched = <<>>,
                       !.fresh = FALSE, !.lookups = 0,
                       !.userInfo = NoUserInfo, !.names = names]

\* A request arrives; the handler runs to its response or to its first blocking call.
Receive(h, r) ==
    /\ Running
    /\ mainPc = "serve"
    /\ hs[h].pc = "idle"
    /\ hs' = [hs EXCEPT ![h] =
          LET new == [Idle EXCEPT !.req = r]
          IN  IF r.method # "POST" THEN Respond(new, 405, "Method not allowed")
              ELSE IF ~r.decodes THEN Respond(new, 400, "Bad request")
              ELSE IF r.type = "url_verification" THEN Respond(new, 200, r.challenge)
              ELSE IF r.type = "event_callback" /\ r.event.type = "message"
              THEN IF ~shouldProcessMessage(r.event, config) THEN Respond(new, 200, "")
                   ELSE [new EXCEPT !.pc = "resolve", !.phase = "sender",
                                    !.uid = r.event.user, !.rest = r.event.text]
              ELSE Respond(new, 200, "ok")]
    /\ UNCHANGED <<config, proc, mainVars, mgrVars, connVars, cacheVars, now>>

\* userCacheMux.RLock(): it waits while a writer holds the lock and, as a
\* sync.RWMutex does, while a call of Lock is pending
CacheRLock(h) ==
    /\ Running
    /\ hs[h].pc = "resolve"
    /\ userCacheMux.writers = {}
    /\ \A g \in Handlers : hs[g].pc # "cacheLock"
    /\ userCacheMux' = [userCacheMux EXCEPT !.readers = @ \cup {h}]
    /\ hs' = [hs EXCEPT ![h].pc = "cacheRead", ![h].fresh = CacheValid(hs[h].uid)]
    /\ UNCHANGED <<config, proc, mainVars, mgrVars, connVars, userCache, now>>

\* lines 100-104: a valid entry is returned, anything else leads to the lookup
CacheRead(h) ==
    /\ Running
    /\ hs[h].pc = "cacheRead"
    /\ userCacheMux' = [userCacheMux EXCEPT !.readers = @ \ {h}]
    /\ hs' = [hs EXCEPT ![h] =
          IF CacheValid(hs[h].uid)
          THEN Resolved(hs[h], userCache[hs[h].uid].displayName)
          ELSE [hs[h] EXCEPT !.pc = "fetch", !.fresh = FALSE, !.lookups = @ + 1]]
    /\ UNCHANGED <<config, proc, mainVars, mgrVars, connVars, userCache, now>>

\* a failed lookup returns the empty string
FailedNameEmpty(userID) == <<>>

\* lines 111, 118, 125, 130: a failed lookup returns the user ID
FailedName(userID) == userID

\* lines 106-143: the users.info call returns; after a decoded answer the name is
\* chosen and userCacheMux.Lock() is called
Fetch(h, res) ==
    /\ Running
    /\ hs[h].pc = "fetch"
    /\ hs' = [hs EXCEPT ![h] =
          IF ~res.ok THEN Resolved(hs[h], FailedName(hs[h].uid))
          ELSE [hs[h] EXCEPT !.pc = "cacheLock",
                             !.userInfo = res,
                             !.fetched = ChooseName(hs[h].uid, res)]]
    /\ UNCHANGED <<config, proc, mainVars, mgrVars, connVars, cacheVars, now>>

\* userCacheMux.Lock() returns: no reader and no writer holds the lock
CacheLock(h) ==
    /\ Running
    /\ hs[h].pc = "cacheLock"
    /\ userCacheMux.writers = {}
    /\ userCacheMux.readers = {}
    /\ userCacheMux' = [userCacheMux EXCEPT !.writers = {h}]
    /\ hs' = [hs EXCEPT ![h].pc = "cacheWrite"]
    /\ UNCHANGED <<config, proc, mainVars, mgrVars, connVars, userCache, now>>

\* lines 144-150: store the entry, unlock, return the name
CacheWrite(h) ==
    /\ Running
    /\ hs[h].pc = "cacheWrite"
    /\ userCache' = CachePut(hs[h].uid, hs[h].fetched)
    /\ userCacheMux' = [userCacheMux EXCEPT !.writers = @ \ {h}]
    /\ hs' = [hs EXCEPT ![h] = Resolved(hs[h], hs[h].fetched)]
    /\ UNCHANGED <<config, proc, mainVars, mgrVars, connVars, now>>

\* lines 320-323: fmt.Sprintf("PRIVMSG %s :<%s> %s\r\n", channel, displayName, text)
ircMessage(channel, displayName, translatedText) ==
    StrPRIVMSG \o <<SP>> \o channel \o <<SP, ":", "<">> \o displayName \o <<">", SP>>
        \o translatedText \o <<CR, LF>>

\* ircConn.mutex.Lock()
HandlerLock(h) ==
    /\ Running
    /\ hs[h].pc = "lock"
    /\ MutexFree(handlerConn)
    /\ mutex' = Acquire(handlerConn, h)
    /\ hs' = [hs EXCEPT ![h].pc = "write"]
    /\ UNCHANGED <<config, proc, mainVars, mgrVars, writing, reg, cacheVars, now>>

\* fmt.Fprintf(ircConn.conn, ircMessage): entered and left in separate steps;
\* the line is the format.  The write returns an error or not; when it does, no
\* byte is counted as written.
HandlerWrite(h, err) ==
    /\ Running
    /\ hs[h].pc = "write"
    /\ IF h \notin writing[handlerConn]
       THEN /\ writing' = [writing EXCEPT ![handlerConn] = @ \cup {h}]
            /\ UNCHANGED hs
       ELSE /\ writing' = [writing EXCEPT ![handlerConn] = @ \ {h}]
            /\ hs' = [hs EXCEPT
                  ![h].pc = "unlock",
                  ![h].err = err,
                  ![h].writes = @ + 1,
                  ![h].wrote = IF err THEN <<>>
                               ELSE Fprintf(ircMessage(Chan, hs[h].displayName, hs[h].acc))]
    /\ UNCHANGED <<config, proc, mainVars, mgrVars, mutex, reg, cacheVars, now>>

\* every relayed event is acknowledged, whatever the write returned
AnswerOK(h) == Respond(h, 200, "ok")

\* lines 330-339: 500 when the write returned an error, otherwise 200 "ok"
Answer(h) ==
    IF h.err THEN Respond(h, 500, "Internal server error") ELSE Respond(h, 200, "ok")

\* ircConn.mutex.Unlock(), then the response
HandlerUnlock(h) ==
    /\ Running
    /\ hs[h].pc = "unlock"
    /\ mutex' = Release(handlerConn, h)
    /\ hs' = [hs EXCEPT ![h] = Answer(hs[h])]
    /\ UNCHANGED <<config, proc, mainVars, mgrVars, writing, reg, cacheVars, now>>

\* the response is sent and the request's goroutine ends
Finish(h) ==
    /\ Running
    /\ hs[h].pc = "done"
    /\ hs' = [hs EXCEPT ![h] = Idle]
    /\ UNCHANGED <<config, proc, mainVars, mgrVars, connVars, cacheVars, now>>

\* time passes
Tick ==
    /\ Running
    /\ now < MaxTime
    /\ now' = now + 1
    /\ UNCHANGED <<config, proc, mainVars, mgrVars, connVars, hs, cacheVars>>

(***************************************************************************)
(* Inputs: webhook requests, lookup results, configurations.               *)
(***************************************************************************)
Mention(userID) == <<"<", "@">> \o userID \o <<">">>

\* a rejected request and a message event that is relayed
LiveRequests ==
    { Request("GET", TRUE, "event_callback", Event("message", U1, Hi, "", "")),
      Request("POST", TRUE, "event_callback", Event("message", U1, Hi, "", "")) }

Profiles == { LookupOK(<<"a">>, <<"b">>) }

LookupResults == LookupFailures \cup Profiles

Configs == { [IgnoreBots |-> TRUE, IgnoreUsers |-> {U2}] }

(***************************************************************************)
(* The specification.                                                      *)
(***************************************************************************)
\* the *IRCConnection values: nil (0) and the ones the manager creates, in order
ConnIds == 0..MaxConns

InitWith(configs) ==
    /\ config \in configs
    /\ proc = "running"
    /\ mainPc = "recv"
    /\ handlerConn = 0
    /\ readySends = 0
    /\ mgrPc = "dial"
    /\ firstConnection = TRUE
    /\ ircConn = 0
    /\ mgrLine = <<>>
    /\ mgrOut = <<>>
    /\ mgrWrote = <<>>
    /\ mgrLast = "start"
    /\ mutex = [c \in ConnIds |-> {}]
    /\ writing = [c \in ConnIds |-> {}]
    /\ reg = [c \in ConnIds |-> <<>>]
    /\ hs = [h \in Handlers |-> Idle]
    /\ userCache = <<>>
    /\ userCacheMux = [readers |-> {}, writers |-> {}]
    /\ now = 0

Init == InitWith(Configs)

Connect ==
    \/ Dial
    \/ DialOK
    \/ DialFail
    \/ Register

Stream(lines) ==
    \/ \E message \in lines : ReadLine(message)
    \/ ReadErr
    \/ PongLock
    \/ PongWrite
    \/ PongUnlock
    \/ \E outcome \in PostOutcomes : PostDone(outcome)

Main ==
    \/ RecvReady
    \/ ListenOK
    \/ ListenFail

Handler(h, requests, results) ==
    \/ \E r \in requests : Receive(h, r)
    \/ CacheRLock(h)
    \/ CacheRead(h)
    \/ \E res \in results : Fetch(h, res)
    \/ CacheLock(h)
    \/ CacheWrite(h)
    \/ HandlerLock(h)
    \/ \E err \in BOOLEAN : HandlerWrite(h, err)
    \/ HandlerUnlock(h)
    \/ Finish(h)

\* The bridge with a server that sends lines and drops connections, concurrent
\* webhook requests that are rejected or relayed, and a clock that stands still.
Next ==
    \/ Connect
    \/ Stream(Lines)
    \/ Main
    \/ \E h \in Handlers : Handler(h, LiveRequests, LookupResults)

Spec == Init /\ [][Next]_vars

\* The bridge with a listener that starts and a Slack API that answers no lookup,
\* the manager's goroutine and main scheduled fairly: a goroutine that can take a
\* step is not left waiting forever.
NextLive ==
    \/ Connect
    \/ Stream(Lines)
    \/ RecvReady
    \/ ListenOK
    \/ \E h \in Handlers :
          \/ \E r \in LiveRequests : Receive(h, r)
          \/ CacheRLock(h)
          \/ CacheRead(h)
          \/ \E res \in LookupFailures : Fetch(h, res)
          \/ HandlerLock(h)
          \/ \E err \in BOOLEAN : HandlerWrite(h, err)
          \/ HandlerUnlock(h)
          \/ Finish(h)

LiveSpec == Init /\ [][NextLive]_vars /\ WF_vars(Connect) /\ WF_vars(RecvReady)

\* The IRC-to-Slack direction: a server that sends chat and PING lines and drops
\* connections, while webhook requests are relayed and no lookup succeeds.
NextStream ==
    \/ Connect
    \/ Stream(CodecLines)
    \/ RecvReady
    \/ ListenOK
    \/ \E h \in Handlers :
          \/ \E r \in LiveRequests : Receive(h, r)
          \/ CacheRLock(h)
          \/ CacheRead(h)
          \/ \E res \in LookupFailures : Fetch(h, res)
          \/ HandlerLock(h)
          \/ \E err \in BOOLEAN : HandlerWrite(h, err)
          \/ HandlerUnlock(h)
          \/ Finish(h)

StreamSpec == Init /\ [][NextStream]_vars

\* requests of every kind the handler and its filter tell apart, and message texts
\* with a "%" and with a line delimiter in them
RelayRequests ==
    { Request("GET", FALSE, "", Event("", <<>>, <<>>, "", "")),
      Request("POST", FALSE, "", Event("", <<>>, <<>>, "", "")),
      Request("POST", TRUE, "url_verification", Event("message", U1, Hi, "", "")),
      Request("POST", TRUE, "event_callback", Event("reaction_added", U1, <<>>, "", "")),
      Request("POST", TRUE, "event_callback", Event("message", U1, Hi, "", "bot_message")),
      Request("POST", TRUE, "event_callback", Event("message", U1, Hi, "B1", "")),
      Request("POST", TRUE, "event_callback", Event("message", U2, Hi, "", "")),
      Request("POST", TRUE, "event_callback", Event("message", U1, Hi, "", "")),
      Request("POST", TRUE, "event_callback", Event("message", U1, <<"5", "%">>, "", "")),
      Request("POST", TRUE, "event_callback",
              Event("message", U1, <<"a", CR, LF, "Q">>, "", "")) }

\* bot filtering on and off, one ignored user
RelayConfigs ==
    { [IgnoreBots |-> b, IgnoreUsers |-> {U2}] : b \in BOOLEAN }

\* The Slack-to-IRC direction: the first connection is made and the server stays
\* silent; requests arrive concurrently and no lookup succeeds.
NextRelay ==
    \/ Connect
    \/ RecvReady
    \/ ListenOK
    \/ \E h \in Handlers :
          \/ \E r \in RelayRequests : Receive(h, r)
          \/ CacheRLock(h)
          \/ CacheRead(h)
          \/ \E res \in LookupFailures : Fetch(h, res)
          \/ HandlerLock(h)
          \/ \E err \in BOOLEAN : HandlerWrite(h, err)
          \/ HandlerUnlock(h)
          \/ Finish(h)

RelaySpec == InitWith(RelayConfigs) /\ [][NextRelay]_vars

\* two message events that pass the filter, told apart by their text
FirstRequest ==
    Request("POST", TRUE, "event_callback", Event("message", U1, <<"1">>, "", ""))
SecondRequest ==
    Request("POST", TRUE, "event_callback", Event("message", U1, <<"2">>, "", ""))

\* the handler of h serves request r and has not yet written its line
Pending(h, r) == hs[h].req = r /\ hs[h].pc \notin {"idle", "done"} /\ hs[h].writes = 0

\* The order of arrival the clients choose: a SecondRequest is sent only while a
\* FirstRequest is pending, and a FirstRequest only when no SecondRequest is being
\* served; every SecondRequest being served has arrived after every FirstRequest
\* being served.
Arrives(r) ==
    IF r = SecondRequest
    THEN \E g \in Handlers : Pending(g, FirstRequest)
    ELSE \A g \in Handlers : hs[g].req # SecondRequest

\* The Slack-to-IRC direction with requests that arrive in a known order and are
\* served concurrently, as net/http serves them.
NextOrder ==
    \/ Connect
    \/ RecvReady
    \/ ListenOK
    \/ \E h \in Handlers :
          \/ \E r \in {FirstRequest, SecondRequest} : Arrives(r) /\ Receive(h, r)
          \/ CacheRLock(h)
          \/ CacheRead(h)
          \/ \E res \in LookupResults : Fetch(h, res)
          \/ CacheLock(h)
          \/ CacheWrite(h)
          \/ HandlerLock(h)
          \/ \E err \in BOOLEAN : HandlerWrite(h, err)
          \/ HandlerUnlock(h)
          \/ Finish(h)

OrderSpec == Init /\ [][NextOrder]_vars

\* a message event whose sender and whose mention are looked up
CacheRequests ==
    { Request("POST", TRUE, "event_callback",
              Event("message", U1, Hi \o <<SP>> \o Mention(U1), "", "")) }

\* mention syntax that mentionRegex does not match: no identifier, a lower-case one
Malformed == <<"<", "@", ">", "<", "@", "u", "1", ">">>

\* a text with two mentions, text before, between and after them
TwoMentions ==
    <<"x">> \o Mention(U1) \o Malformed \o Mention(U1) \o <<"y">>

\* a text with two mentions and a text with none
TranslateRequests ==
    { Request("POST", TRUE, "event_callback", Event("message", U1, TwoMentions, "", "")),
      Request("POST", TRUE, "event_callback", Event("message", U1, Malformed, "", "")) }

\* translateMentions under concurrent requests, with lookups that fail or succeed
NextTranslate ==
    \/ Connect
    \/ RecvReady
    \/ ListenOK
    \/ \E h \in Handlers : Handler(h, TranslateRequests, LookupResults)

TranslateSpec == Init /\ [][NextTranslate]_vars

\* a PING line and a chat line
LockLines == { PingLine(<<"s">>), ChatLine(<<"n">>, Hi) }

\* a lookup that fails and one that succeeds
LockResults ==
    { r \in LookupFailures : r.why = "transport" } \cup Profiles

\* the steps of request goroutine h that wait for nothing but the scheduler
Runs(h) ==
    \/ CacheRead(h)
    \/ \E res \in LockResults : Fetch(h, res)
    \/ CacheWrite(h)
    \/ \E err \in BOOLEAN : HandlerWrite(h, err)
    \/ HandlerUnlock(h)

\* the steps in which request goroutine h gets a lock it waits for
Acquires(h) ==
    \/ CacheRLock(h)
    \/ CacheLock(h)
    \/ HandlerLock(h)

\* the steps of the read loop that wait for nothing but the scheduler
PongRuns ==
    \/ PongWrite
    \/ PongUnlock
    \/ \E outcome \in {"ok"} : PostDone(outcome)

\* The locks under contention: PING lines are answered and chat lines posted
\* while requests are relayed and names are looked up.  A goroutine that can run
\* does run, a write, a lookup and a post return, and a goroutine for which a lock
\* is free again and again gets it (sync.Mutex hands a lock over to a starving
\* waiter).
NextLock ==
    \/ Connect
    \/ \E message \in LockLines : ReadLine(message)
    \/ PongLock
    \/ PongRuns
    \/ RecvReady
    \/ ListenOK
    \/ \E h \in Handlers :
          \/ \E r \in {FirstRequest} : Receive(h, r)
          \/ Acquires(h)
          \/ Runs(h)
          \/ Finish(h)

LockSpec ==
    /\ Init
    /\ [][NextLock]_vars
    /\ SF_vars(PongLock \/ PongRuns)
    /\ \A h \in Handlers : SF_vars(Acquires(h) \/ Runs(h))

\* profiles with and without a display name and a real name
NameProfiles ==
    { LookupOK(<<"a">>, <<"b">>), LookupOK(<<>>, <<"b">>), LookupOK(<<>>, <<>>) }

\* The identity lookup with every kind of profile and of failure; the clock stands
\* still and the server stays silent.
NextName ==
    \/ Connect
    \/ RecvReady
    \/ ListenOK
    \/ \E h \in Handlers : Handler(h, CacheRequests, NameProfiles \cup LookupFailures)

NameSpec == Init /\ [][NextName]_vars

\* The identity cache under concurrent requests and a running clock; the IRC
\* server accepts the connection and then stays silent.
NextCache ==
    \/ Connect
    \/ Main
    \/ \E h \in Handlers : Handler(h, CacheRequests, LookupResults)
    \/ Tick

CacheSpec == Init /\ [][NextCache]_vars

(***************************************************************************)
(* Properties.                                                             *)
(***************************************************************************)
\* the three registration commands, in the order of lines 363-365
Registration == <<"nick", "user", "join">>

\* a webhook request is being handled by goroutine h
Handling(h) == hs[h].pc # "idle"

\* C1: after a reconnect, every line the webhook handler writes goes to the
\* manager's newest IRCConnection, never to one that has been superseded.
C1_HandlerWritesToNewest ==
    \A h \in Handlers : h \in writing[handlerConn] => handlerConn = ircConn

\* C2: the webhook listener is not started, and no request is handled, before the
\* first connection is established and registered; when the first Dial fails the
\* process ends with main still waiting on connectionReady.
C2_ListenerAfterFirstConnection ==
    /\ (mainPc # "recv" \/ \E h \in Handlers : Handling(h))
          => (ircConn >= 1 /\ reg[1] = Registration)
    /\ proc = "fatal" => (ircConn = 0 /\ mainPc = "recv" /\ \A h \in Handlers : ~Handling(h))

C2_Witness == mainPc = "serve" /\ \E h \in Handlers : Handling(h)

\* C3: at most one Fprintf is in progress on any one connection at any time, whatever
\* the interleaving of webhook requests and PONG replies.
C3_OneWriterPerConnection ==
    \A c \in ConnIds : Cardinality(writing[c]) <= 1

C3_Witness ==
    \E h1, h2 \in Handlers :
        /\ h1 \in writing[handlerConn]
        /\ hs[h2].pc = "lock"
        /\ mgrPc = "pongLock"
        /\ ircConn = handlerConn

\* C4 as claimed: every write to a connection, the registration commands included,
\* is made by a goroutine that holds the mutex of that IRCConnection.
C4_EveryWriteLocked ==
    \A c \in ConnIds : \A w \in writing[c] : w \in mutex[c]

\* C4 amended: every PONG reply and every relayed PRIVMSG is written by a goroutine
\* that holds the mutex of that IRCConnection; the registration commands are written
\* without it, by the manager, to a connection no webhook handler refers to.
C4_SharedWritesLocked ==
    \A c \in ConnIds : \A w \in writing[c] :
        \/ w \in mutex[c]
        \/ /\ w = ReadLoop
           /\ mgrPc \in {"nick", "user", "join"}
           /\ c = ircConn
           /\ handlerConn # c

C4_Witness ==
    /\ ReadLoop \in writing[ircConn]
    /\ mgrPc = "pongWrite"
    /\ \E h \in Handlers : hs[h].pc = "lock" /\ handlerConn = ircConn

\* C5: no line the server sends ends the process: the read loop survives every
\* line, whatever its content.
C5_ReadLoopSurvivesEveryLine == proc # "panic"

\* a step in which net.Dial returns an error
DialFailStep == mgrPc = "dialing" /\ mgrLast' = "dialfail"

\* C6: a failed Dial ends the process exactly when no Dial has succeeded before
\* (ircConn counts the successful ones); after any later failure the manager is back
\* at net.Dial, and it calls it again, however often that has happened.
C6_ConnectFailure ==
    /\ [][DialFailStep =>
            /\ (proc' # "running") <=> (ircConn = 0)
            /\ ircConn > 0 => mgrPc' = "dial"]_vars
    /\ (mgrLast = "dialfail" /\ Running) ~> (mgrPc = "dialing")

C6_Witness == mgrLast = "dialfail" /\ ircConn >= 1 /\ Running

\* C7: after the stream ends or a reconnect fails, the manager takes a step of its
\* own (the wait) before the next Dial: no Dial directly follows the failure.
C7_WaitBeforeDial ==
    [][(mgrLast \in {"readerr", "dialfail"}) => (mgrPc' # "dialing")]_vars

\* C8: the manager sends on connectionReady once, on its first connection; on a
\* reconnect it neither sends nor waits to send.
C8_ReadyOnce ==
    /\ readySends <= 1
    /\ mgrPc = "ready" => (ircConn = 1 /\ readySends = 0)
    /\ (mgrPc = "read" \/ ircConn >= 2) => readySends = 1

C8_Witness == ircConn >= 2 /\ mgrPc = "read" /\ readySends = 1

\* C9: whenever the stream ends the manager eventually dials again, and a Dial that
\* succeeds is eventually followed by the read loop on the new connection.
C9_Reconnects ==
    /\ (mgrLast = "readerr") ~> (mgrPc = "dialing")
    /\ (mgrLast = "dialok") ~> (mgrPc = "read" /\ reg[ircConn] = Registration)

C9_Witness == ircConn >= 2 /\ mgrPc = "read" /\ reg[ircConn] = Registration

\* C10: a cache read returns the cached name only when the clock is strictly before
\* the entry's expiration; with no entry or an expired one it goes on to the lookup.
C10_NeverStale ==
    [][\A h \in Handlers :
          (hs[h].pc = "cacheRead" /\ hs'[h].pc # "cacheRead") =>
              LET uid == hs[h].uid
                  fresh == uid \in DOMAIN userCache /\ now < userCache[uid].expiration
              IN  /\ (hs'[h].pc = "fetch") <=> ~fresh
                  /\ (fresh /\ hs[h].phase = "sender")
                        => hs'[h].displayName = userCache[uid].displayName
                  /\ (fresh /\ hs[h].phase = "mention")
                        => hs'[h].acc = hs[h].acc \o userCache[uid].displayName
                                         \o FirstMention(hs[h].rest).before
                                         \o (IF FirstMention(hs[h].rest).found
                                             THEN <<"@">> ELSE <<>>)]_vars

\* an expired entry is found and the lookup is made again
C10_Witness ==
    \E h \in Handlers :
        /\ hs[h].pc = "fetch"
        /\ hs[h].uid \in DOMAIN userCache
        /\ now >= userCache[hs[h].uid].expiration

\* the step of h in which getUserDisplayName returns: its call in progress ends
Returning(h) ==
    /\ hs[h].pc \in {"cacheRead", "fetch", "cacheWrite"}
    /\ hs'[h].pc \in {"resolve", "lock"}

\* C11 as claimed: a Resolve that has started (it holds the cache's read lock) while
\* the stored entry of its user ID was not yet expired returns the cached name and
\* makes no lookup.
C11_CachedFromStart ==
    [][\A h \in Handlers :
          (hs[h].pc = "cacheRead" /\ hs[h].fresh /\ hs'[h].pc # "cacheRead") =>
              /\ hs'[h].pc # "fetch"
              /\ hs'[h] = Resolved(hs[h], userCache[hs[h].uid].displayName)]_vars

\* C11 amended: a stored entry stays in the cache and expires cacheDuration after the
\* instant of its store; a Resolve whose clock read (line 100) is before the entry's
\* expiration returns the cached name and makes no lookup; a Resolve whose clock read
\* is at or after it makes exactly one lookup before it returns.
C11_CachedAtCheck ==
    /\ [][\A u \in DOMAIN userCache :
            /\ u \in DOMAIN userCache'
            /\ userCache'[u].expiration >= userCache[u].expiration
            /\ userCache'[u] # userCache[u] => userCache'[u].expiration = now + cacheDuration]_vars
    /\ [][\A u \in DOMAIN userCache' \ DOMAIN userCache :
            userCache'[u].expiration = now + cacheDuration]_vars
    /\ [][\A h \in Handlers :
            (hs[h].pc = "cacheRead" /\ hs'[h].pc # "cacheRead") =>
                LET uid == hs[h].uid
                IN  IF uid \in DOMAIN userCache /\ now < userCache[uid].expiration
                    THEN /\ hs'[h] = Resolved(hs[h], userCache[uid].displayName)
                         /\ hs[h].lookups = 0
                    ELSE hs'[h].pc = "fetch" /\ hs'[h].lookups = 1]_vars
    /\ [][\A h \in Handlers :
            /\ hs'[h].lookups <= 1
            /\ (Returning(h) /\ hs[h].pc # "cacheRead") => hs[h].lookups = 1]_vars

\* a later Resolve of a stored user ID reads the clock within the hour
C11_Witness ==
    \E h \in Handlers :
        /\ hs[h].pc = "cacheRead"
        /\ hs[h].uid \in DOMAIN userCache
        /\ now >= 1
        /\ now < userCache[hs[h].uid].expiration

\* C12: when the lookup fails, getUserDisplayName returns the user ID itself and
\* the cache is left as it was: no entry is created or overwritten, so an ID that
\* had no valid entry still has none for the next Resolve.
C12_FailureNotCached ==
    [][\A h \in Handlers :
          (hs[h].pc = "fetch" /\ hs'[h].pc \notin {"fetch", "cacheLock"}) =>
              /\ userCache' = userCache
              /\ hs[h].phase = "sender" => hs'[h].displayName = hs[h].uid
              /\ hs[h].phase = "mention" =>
                    SubSeq(hs'[h].acc, 1, Len(hs[h].acc) + Len(hs[h].uid))
                        = hs[h].acc \o hs[h].uid]_vars

\* the sender's lookup failed, nothing was stored, and the mention of the same user
\* is looked up again
C12_Witness ==
    \E h \in Handlers :
        /\ hs[h].phase = "mention"
        /\ hs[h].pc = "fetch"
        /\ hs[h].displayName = U1
        /\ hs[h].uid = U1
        /\ U1 \notin DOMAIN userCache

\* the request is a message event: lines 286-306 lead it to the filter
IsMessage(r) ==
    r.method = "POST" /\ r.decodes /\ r.type = "event_callback" /\ r.event.type = "message"

\* the filter as the claim states it, under the loaded configuration
Passes(e) ==
    /\ e.subtype = ""
    /\ ~(config.IgnoreBots /\ e.bot_id # "")
    /\ e.user \notin config.IgnoreUsers

\* the handler of h is past the filter: it resolves names, or writes, or has written
Relaying(h) == hs[h].pc \notin {"idle", "done"} \/ hs[h].writes > 0

\* C13: a request is relayed (names resolved, the line written) only if it is a
\* message event that passes the filter, and every such event is written once
\* before it is answered; a dropped event is answered at once, with no write and
\* no lookup.
C13_FilterDecidesRelay ==
    \A h \in Handlers :
        LET r == hs[h].req
        IN  /\ Relaying(h) => (IsMessage(r) /\ Passes(r.event))
            /\ (IsMessage(r) /\ Passes(r.event) /\ hs[h].pc = "done") => hs[h].writes = 1
            /\ (IsMessage(r) /\ ~Passes(r.event)) =>
                  /\ hs[h].pc = "done"
                  /\ hs[h].writes = 0
                  /\ hs[h].lookups = 0
                  /\ h \notin writing[handlerConn] \cup mutex[handlerConn]

\* an event dropped for its bot identifier is answered, another event was written
C13_Witness ==
    \E h, g \in Handlers :
        /\ hs[h].pc = "done" /\ IsMessage(hs[h].req)
        /\ hs[h].req.event.bot_id # "" /\ config.IgnoreBots
        /\ hs[g].pc = "done" /\ hs[g].writes = 1

\* C14: the status code of an answered request: 405 for a method other than POST,
\* else 400 for a body that does not decode, else 200 and the challenge for
\* url_verification, else 500 for a relayed event whose write returned an error,
\* else 200; a request answered 405 or 400 was never relayed.
C14_StatusPrecedence ==
    \A h \in Handlers :
        LET r == hs[h].req
        IN  /\ hs[h].pc = "done" =>
                  hs[h].status =
                      IF r.method # "POST" THEN 405
                      ELSE IF ~r.decodes THEN 400
                      ELSE IF r.type = "url_verification" THEN 200
                      ELSE IF hs[h].writes = 1 /\ hs[h].err THEN 500
                      ELSE 200
            /\ (hs[h].pc = "done" /\ r.method = "POST" /\ r.decodes
                    /\ r.type = "url_verification") => hs[h].body = r.challenge
            /\ (hs[h].pc # "idle" /\ (r.method # "POST" \/ ~r.decodes)) =>
                  /\ hs[h].pc = "done"
                  /\ hs[h].status \in {400, 405}
                  /\ hs[h].writes = 0
                  /\ hs[h].lookups = 0
            /\ hs[h].err => hs[h].writes = 1

\* a relayed event whose write failed is answered 500 while a request that is not
\* a POST is answered 405
C14_Witness ==
    \E h, g \in Handlers :
        /\ hs[h].pc = "done" /\ hs[h].status = 500
        /\ hs[g].pc = "done" /\ hs[g].status = 405 /\ ~hs[g].req.decodes

\* C15: every message event that is answered without a write error, relayed or
\* dropped by the filter, is answered 200 with the body "ok".
C15_MessageAnsweredOk ==
    \A h \in Handlers :
        (hs[h].pc = "done" /\ IsMessage(hs[h].req) /\ ~hs[h].err) =>
            (hs[h].status = 200 /\ hs[h].body = "ok")

\* C18: the bytes a handler has written for a relayed event are the one line
\* PRIVMSG <channel> :<displayName> translatedText and its delimiter, whatever
\* the text.
C18_OneLineAsFormatted ==
    \A h \in Handlers :
        (hs[h].pc = "unlock" /\ ~hs[h].err) =>
            /\ hs[h].wrote = ircMessage(Chan, hs[h].displayName, hs[h].acc)
            /\ CountLines(hs[h].wrote) = 1

\* C16: while a chat line :n!u@h PRIVMSG #c :text is being handled, one post is in
\* progress and its text is <n> text, whatever the text.
C16_ChatForwarded ==
    \A text \in ChatTexts :
        mgrLine = ChatLine(<<"n">>, text) =>
            (mgrPc = "post" /\ mgrOut = <<"<", "n", ">", SP>> \o text)

\* C17: a line PING :param is answered, not posted, and the bytes written to the
\* connection are PONG :param and the delimiter, whatever the parameter.
C17_PongEchoesPing ==
    \A param \in PingParams :
        mgrLine = PingLine(param) =>
            /\ mgrPc \in {"pongLock", "pongWrite", "pongUnlock"}
            /\ mgrPc = "pongUnlock" =>
                  mgrWrote = StrPONG \o <<SP, ":">> \o param \o <<CR, LF>>

\* C19: the read loop takes up a line only when the line before it is handled and
\* its post has returned, and a post starts only in the step that reads its line,
\* with the text made from that line: posts are issued one at a time in the order
\* the lines are read.
C19_PostsInReadOrder ==
    /\ [][(mgrLine' # mgrLine /\ mgrLine' # <<>>) =>
            (mgrPc = "read" /\ mgrLine = <<>> /\ mgrOut = <<>>)]_vars
    /\ [][mgrPc' = "post" =>
            \/ mgrPc = "post" /\ mgrLine' = mgrLine /\ mgrOut' = mgrOut
            \/ /\ mgrPc = "read"
               /\ handleMessage(mgrLine').kind = "post"
               /\ mgrOut' = handleMessage(mgrLine').out]_vars

\* the post of a chat line is in progress on the second connection, after the
\* lines of the first
C19_Witness ==
    /\ mgrPc = "post"
    /\ mgrLine = ChatLine(<<"n">>, Hi)
    /\ ircConn = 2

\* C20: a request that arrived later has not written its line while one that
\* arrived before it is still to write its own.
C20_WrittenInArrivalOrder ==
    \A g, h \in Handlers :
        ~(Pending(g, FirstRequest) /\ hs[h].req = SecondRequest /\ hs[h].writes = 1)

\* C21: a post that fails is not made again: the step in which it fails takes the
\* manager back to reader.ReadString on the same connection, with the process
\* running and nothing kept of the line; from there its next step is the read of
\* a line or of the end of the stream, never a Dial; and a post only ever starts
\* in the step that reads its line.
C21_PostFireAndForget ==
    /\ [][mgrLast' = "postfail" /\ mgrVars' # mgrVars =>
            /\ mgrPc = "post"
            /\ mgrPc' = "read"
            /\ mgrLine' = <<>> /\ mgrOut' = <<>>
            /\ ircConn' = ircConn
            /\ proc' = proc]_vars
    /\ [][mgrLast = "postfail" /\ mgrVars' # mgrVars =>
            /\ mgrPc = "read"
            /\ mgrPc' \in {"read", "post", "pongLock", "dial"}
            /\ mgrPc' = "dial" => mgrLast' = "readerr"
            /\ ircConn' = ircConn]_vars
    /\ [][mgrPc' = "post" /\ mgrVars' # mgrVars => mgrPc = "read"]_vars

\* after a failed post the manager is reading again on the same connection
C21_Witness ==
    /\ mgrLast = "postfail"
    /\ mgrPc = "read"
    /\ Running
    /\ ircConn = 1

\* the name the claim gives for a profile: display name, else real name, else the ID
NameOf(userID, profile) ==
    IF profile.display_name # <<>> THEN profile.display_name
    ELSE IF profile.real_name # <<>> THEN profile.real_name
    ELSE userID

\* C22: the step that ends a successful lookup stores, under the user ID, the
\* profile's display name if it is not empty, else its real name if that is not
\* empty, else the user ID, and returns that same name to the caller.
C22_NameFallback ==
    /\ [][\A h \in Handlers :
            (hs[h].pc = "cacheWrite" /\ hs'[h].pc # "cacheWrite") =>
                LET uid == hs[h].uid
                    name == NameOf(uid, hs[h].userInfo)
                IN  /\ hs[h].userInfo.ok
                    /\ uid \in DOMAIN userCache'
                    /\ userCache'[uid].displayName = name
                    /\ hs[h].phase = "sender" => hs'[h].displayName = name
                    /\ hs[h].phase = "mention" =>
                          hs'[h].names = Append(hs[h].names, name)]_vars
    /\ [][\A h \in Handlers :
            (hs[h].pc = "fetch" /\ hs'[h].pc = "cacheLock") => hs'[h].userInfo.ok]_vars

\* a profile without display name was stored and returned under its real name, and
\* one with neither under the user ID
C22_Witness ==
    \E h, g \in Handlers :
        /\ hs[h].displayName = <<"b">> /\ hs[h].pc = "lock"
        /\ hs[g].names = <<U1>> /\ hs[g].pc = "lock"
        /\ U1 \in DOMAIN userCache

\* the handler of h has the text translated: translateMentions has returned
Translated(h) == hs[h].pc \in {"lock", "write", "unlock"}

\* C23: the translated text of x<@U1>...<@U1>y is the text with each of the two
\* mentions replaced by "@" and the name getUserDisplayName returned for it, the
\* rest in place; a text without a mention is returned as it is, and
\* getUserDisplayName is called for a mention only, with the mentioned user ID.
C23_MentionsTranslated ==
    \A h \in Handlers :
        LET text == hs[h].req.event.text
        IN  /\ (Translated(h) /\ text = TwoMentions) =>
                  /\ Len(hs[h].names) = 2
                  /\ hs[h].acc = <<"x", "@">> \o hs[h].names[1] \o Malformed
                                     \o <<"@">> \o hs[h].names[2] \o <<"y">>
            /\ (Translated(h) /\ text = Malformed) =>
                  (hs[h].names = <<>> /\ hs[h].acc = Malformed)
            /\ hs[h].phase = "mention" =>
                  (text = TwoMentions /\ hs[h].uid = U1 /\ Len(hs[h].names) < 2)

\* a text translated with a name from the profile and with the user ID of a failed
\* lookup, while a text without mention is about to be written as it is
C23_Witness ==
    \E h, g \in Handlers :
        /\ hs[h].pc = "lock" /\ hs[h].names = <<U1, <<"a">> >>
        /\ hs[g].pc = "lock" /\ hs[g].acc = Malformed

\* C24: no post is in progress for a line that has no "!".
C24_NoBangSkipped ==
    (mgrLine # <<>> /\ ~Contains(mgrLine, <<"!">>)) => mgrPc # "post"

\* a prefix of the registration commands
IsPrefix(s, t) == Len(s) <= Len(t) /\ s = SubSeq(t, 1, Len(s))

\* C25: on every connection the commands written are NICK, USER, JOIN in that
\* order, each once; while the manager reads from its connection, handles a line
\* of it or writes a PONG to it, all three have been written to that connection.
C25_RegisteredBeforeRead ==
    /\ \A c \in ConnIds : IsPrefix(reg[c], Registration)
    /\ \A c \in ConnIds : (1 <= c /\ c < ircConn) => reg[c] = Registration
    /\ \A c \in ConnIds : (c = 0 \/ c > ircConn) => reg[c] = <<>>
    /\ mgrPc \in {"ready", "read", "pongLock", "pongWrite", "pongUnlock", "post"}
          => reg[ircConn] = Registration
    /\ (mgrLine # <<>> \/ mgrWrote # <<>>) => reg[ircConn] = Registration

\* a PONG is being written to the second, registered connection
C25_Witness ==
    /\ ircConn = 2
    /\ mgrPc = "pongWrite"
    /\ ReadLoop \in writing[ircConn]
    /\ reg[ircConn] = Registration

\* C26: no two requests have a lookup of the same user ID in progress at once.
C26_OneLookupPerUser ==
    \A h, g \in Handlers :
        (h # g /\ hs[h].pc = "fetch" /\ hs[g].pc = "fetch") => hs[h].uid # hs[g].uid

\* the goroutines that hold the cache lock, for reading or for writing
CacheHolders == userCacheMux.readers \cup userCacheMux.writers

\* the connections whose lock goroutine w holds
Held(w) == {c \in ConnIds : w \in mutex[c]}

\* request goroutine h holds a lock
Holds(h) == Held(h) # {} \/ h \in CacheHolders

\* request goroutine h waits for a lock: the only step that takes it on is the one
\* in which it gets the lock
Waits(h) == hs[h].pc \in {"resolve", "cacheLock", "lock"}

\* C27: a connection lock is held only from Lock to the Unlock after one Fprintf,
\* and the cache lock only around the map access; the holder of one lock holds no
\* other and is in no lookup and no post; a request that is answered, with or
\* without a write error, holds nothing.  Every goroutine that waits for a lock or
\* holds one comes to a point where it does neither: a wait ends only by getting
\* the lock, and a lock is given up only by releasing it.
C27_LockDiscipline ==
    /\ [](\A h \in Handlers :
            /\ Held(h) # {} => (Held(h) = {handlerConn} /\ hs[h].pc \in {"write", "unlock"})
            /\ hs[h].pc \in {"write", "unlock"} => Held(h) = {handlerConn}
            /\ h \in writing[handlerConn] => hs[h].pc = "write"
            /\ h \in userCacheMux.readers <=> hs[h].pc = "cacheRead"
            /\ h \in userCacheMux.writers <=> hs[h].pc = "cacheWrite"
            /\ hs[h].pc = "unlock" => hs[h].writes = 1)
    /\ [](/\ Held(ReadLoop) # {} =>
                (Held(ReadLoop) = {ircConn} /\ mgrPc \in {"pongWrite", "pongUnlock"})
          /\ mgrPc \in {"pongWrite", "pongUnlock"} => Held(ReadLoop) = {ircConn}
          /\ (userCacheMux.writers # {}) =>
                (Cardinality(userCacheMux.writers) = 1 /\ userCacheMux.readers = {}))
    /\ \A h \in Handlers : (Holds(h) \/ Waits(h)) ~> ~(Holds(h) \/ Waits(h))
    /\ (Held(ReadLoop) # {} \/ mgrPc = "pongLock") ~> (mgrPc = "read")

\* a request is answered 500 after a failed write and holds nothing, while the read
\* loop waits for the lock that another request holds
C27_Witness ==
    \E h, g \in Handlers :
        /\ hs[h].pc = "done" /\ hs[h].err /\ Held(h) = {}
        /\ hs[g].pc = "write" /\ g \in mutex[ircConn]
        /\ mgrPc = "pongLock"

====
